---------------------------- MODULE Spec2Model ----------------------------
(***************************************************************************)
(* A model of onto-editor/eidos/migrate_to_sqlserver.py: the dialect       *)
(* converter convert_sqlite_to_sqlserver (an ordered list of regular-      *)
(* expression and literal substitutions followed by a line-oriented pass)  *)
(* and the import runner import_to_sqlserver (a copy into the container    *)
(* followed by the database client).                                       *)
(***************************************************************************)
EXTENDS Integers, Sequences, FiniteSets

(* ---- Text is modelled as a sequence of one-character strings. ---- *)

(* The literals of the patterns and replacements of convert_sqlite_to_sqlserver. *)

PragmaKw ==
    <<"P","R","A","G","M","A">>

BeginTransaction ==
    <<"B","E","G","I","N"," ","T","R","A","N","S","A","C","T","I","O","N",";">>

CommitKw ==
    <<"C","O","M","M","I","T",";">>

CreateTableIfNotExists ==
    <<"C","R","E","A","T","E"," ","T","A","B","L","E"," ","I","F"," ","N","O","T"," ","E",
      "X","I","S","T","S">>

ExistsCheckCreateTable ==
    <<"I","F"," ","N","O","T"," ","E","X","I","S","T","S"," ","(","S","E","L","E","C","T",
      " ","*"," ","F","R","O","M"," ","s","y","s",".","o","b","j","e","c","t","s"," ","W",
      "H","E","R","E"," ","o","b","j","e","c","t","_","i","d"," ","="," ","O","B","J","E",
      "C","T","_","I","D","(","N","'","[","d","b","o","]",".","[","{","t","a","b","l","e",
      "}","]","'",")"," ","A","N","D"," ","t","y","p","e"," ","i","n"," ","(","N","'","U",
      "'",")",")","\n","C","R","E","A","T","E"," ","T","A","B","L","E">>

CreateTableKw ==
    <<"C","R","E","A","T","E"," ","T","A","B","L","E">>

CreateIndexKw ==
    <<"C","R","E","A","T","E"," ","I","N","D","E","X">>

CreateUniqueIndexKw ==
    <<"C","R","E","A","T","E"," ","U","N","I","Q","U","E"," ","I","N","D","E","X">>

InsertIntoKw ==
    <<"I","N","S","E","R","T"," ","I","N","T","O"," ">>

Quoted0 ==
    <<"'","0","'">>

Quoted1 ==
    <<"'","1","'">>

Bare0 ==
    <<"0">>

Bare1 ==
    <<"1">>

EmptyQuotes ==
    <<"'","'">>

NullKw ==
    <<"N","U","L","L">>

GoLine ==
    <<"G","O">>

CommentMarker ==
    <<"-","-">>

(* ---- Character classes ---- *)

(* \w of Python's re on str: letters, digits and the underscore. *)
WordChars ==
    {"A","B","C","D","E","F","G","H","I","J","K","L","M","N","O","P","Q","R","S","T","U",
     "V","W","X","Y","Z","a","b","c","d","e","f","g","h","i","j","k","l","m","n","o","p",
     "q","r","s","t","u","v","w","x","y","z","0","1","2","3","4","5","6","7","8","9","_"}

(* The characters str.strip() removes from both ends. *)
Whitespace == {" ", "\t", "\n", "\r", "\f"}

(* ---- The matching engine: re.sub and str.replace ---- *)

(* The literal lit occurs in s starting at position i. *)
MatchesAt(s, i, lit) ==
    /\ i + Len(lit) - 1 <= Len(s)
    /\ \A k \in 1..Len(lit) : s[i + k - 1] = lit[k]

(* The least and the greatest member of a non-empty set of positions. *)
Least(S) == CHOOSE x \in S : \A y \in S : x <= y

Greatest(S) == CHOOSE x \in S : \A y \in S : y <= x

(* The ';' positions that '.*' can reach from position j: without DOTALL
   '.' does not match a line break. *)
Reachable(s, j, dotall) ==
    {t \in j..Len(s) : s[t] = ";" /\ (dotall \/ \A k \in j..(t - 1) : s[k] # "\n")}

(* '.*?;' tried from position j: the position of the first ';' it can reach,
   or 0 when there is none. *)
LazyEnd(s, j, dotall) ==
    IF Reachable(s, j, dotall) = {} THEN 0 ELSE Least(Reachable(s, j, dotall))

(* Greedy variant '.*;': the last ';' it can reach. Not what the source uses. *)
GreedyEnd(s, j, dotall) ==
    IF Reachable(s, j, dotall) = {} THEN 0 ELSE Greatest(Reachable(s, j, dotall))

(* The leftmost position at or after i where lit followed by '.*?;' matches
   (0: nowhere). *)
NextLazyMatch(s, i, lit, dotall) ==
    LET P == {p \in i..Len(s) : MatchesAt(s, p, lit) /\ LazyEnd(s, p + Len(lit), dotall) # 0}
    IN  IF P = {} THEN 0 ELSE Least(P)

(* re.sub(lit + '.*?;', '', s) from position i on: matches are found left to
   right, do not overlap, and each is deleted. *)
RECURSIVE SubLazy(_, _, _, _)
SubLazy(s, i, lit, dotall) ==
    LET p == NextLazyMatch(s, i, lit, dotall)
    IN  IF p = 0 THEN SubSeq(s, i, Len(s))
        ELSE SubSeq(s, i, p - 1) \o SubLazy(s, LazyEnd(s, p + Len(lit), dotall) + 1, lit, dotall)

RECURSIVE SubGreedy(_, _, _, _)
SubGreedy(s, i, lit, dotall) ==
    LET p == NextLazyMatch(s, i, lit, dotall)
    IN  IF p = 0 THEN SubSeq(s, i, Len(s))
        ELSE SubSeq(s, i, p - 1) \o SubGreedy(s, GreedyEnd(s, p + Len(lit), dotall) + 1, lit, dotall)

(* The leftmost position at or after i where the literal lit occurs (0:
   nowhere). *)
NextLiteral(s, i, lit) ==
    LET P == {p \in i..Len(s) : MatchesAt(s, p, lit)}
    IN  IF P = {} THEN 0 ELSE Least(P)

(* re.sub of a literal pattern, and str.replace(old, new): every occurrence
   of old found by one left-to-right scan, without overlap, becomes new. *)
RECURSIVE SubLiteral(_, _, _, _)
SubLiteral(s, i, old, new) ==
    LET p == NextLiteral(s, i, old)
    IN  IF p = 0 THEN SubSeq(s, i, Len(s))
        ELSE SubSeq(s, i, p - 1) \o new \o SubLiteral(s, p + Len(old), old, new)

(* str.replace(old, new, 1): the first occurrence only. *)
SubLiteralOnce(s, i, old, new) ==
    LET p == NextLiteral(s, i, old)
    IN  IF p = 0 THEN SubSeq(s, i, Len(s))
        ELSE SubSeq(s, i, p - 1) \o new \o SubSeq(s, p + Len(old), Len(s))

(* '\S+' instead of '\w+': the run ends at the next whitespace character. *)
NonSpaceEnd(s, j) ==
    Least({k \in j..(Len(s) + 1) : k = Len(s) + 1 \/ s[k] \in {" ", "\t", "\n", "\r", "\f"}}) - 1

(* '\w+' tried from position j: the last position of the longest run of word
   characters starting at j (j - 1 when s[j] is no word character). *)
WordEnd(s, j) ==
    Least({k \in j..(Len(s) + 1) : k = Len(s) + 1 \/ s[k] \notin WordChars}) - 1

(* The leftmost position at or after i where 'INSERT INTO (\w+)' matches
   (0: nowhere). *)
NextInsert(s, i) ==
    LET P == {p \in i..Len(s) : /\ MatchesAt(s, p, InsertIntoKw)
                                /\ WordEnd(s, p + Len(InsertIntoKw)) >= p + Len(InsertIntoKw)}
    IN  IF P = {} THEN 0 ELSE Least(P)

(* re.sub(r'INSERT INTO (\w+)', r'INSERT INTO [\1]', s) from position i on. *)
RECURSIVE SubInsert(_, _)
SubInsert(s, i) ==
    LET p == NextInsert(s, i)
        e == WordEnd(s, p + Len(InsertIntoKw))
    IN  IF p = 0 THEN SubSeq(s, i, Len(s))
        ELSE SubSeq(s, i, p - 1) \o InsertIntoKw \o <<"[">>
             \o SubSeq(s, p + Len(InsertIntoKw), e) \o <<"]">> \o SubInsert(s, e + 1)

(* ---- The substitution rules, in the order of the source ---- *)

(* content = re.sub(r'PRAGMA.*?;', '', content) *)
StripPragma(content) == SubLazy(content, 1, PragmaKw, FALSE)

(* content = re.sub(r'BEGIN TRANSACTION;', '', content) *)
StripBeginTransaction(content) == SubLiteral(content, 1, BeginTransaction, << >>)

(* content = re.sub(r'COMMIT;', '', content) *)
StripCommit(content) == SubLiteral(content, 1, CommitKw, << >>)

(* content = re.sub(r'CREATE TABLE IF NOT EXISTS', 'IF NOT EXISTS (...)\nCREATE TABLE', content) *)
RewriteCreateIfNotExists(content) ==
    SubLiteral(content, 1, CreateTableIfNotExists, ExistsCheckCreateTable)

(* A deletion up to the last ';' of the document instead of the first. *)
RemoveCreateTableGreedy(content) == SubGreedy(content, 1, CreateTableKw, TRUE)

(* content = re.sub(r'CREATE TABLE.*?;', '', content, flags=re.DOTALL) *)
RemoveCreateTable(content) == SubLazy(content, 1, CreateTableKw, TRUE)

(* content = re.sub(r'CREATE INDEX.*?;', '', content) *)
RemoveCreateIndex(content) == SubLazy(content, 1, CreateIndexKw, FALSE)

(* content = re.sub(r'CREATE UNIQUE INDEX.*?;', '', content) *)
RemoveCreateUniqueIndex(content) == SubLazy(content, 1, CreateUniqueIndexKw, FALSE)

(* The insert rule left out: the identifier stays as it is. *)
BracketInsertMissing(content) == content

(* content = re.sub(r'INSERT INTO (\w+)', r'INSERT INTO [\1]', content) *)
BracketInsert(content) == SubInsert(content, 1)

(* The boolean rule replacing only the first occurrence of each literal. *)
ConvertBooleansFirstOnly(content) ==
    SubLiteralOnce(SubLiteralOnce(content, 1, Quoted0, Bare0), 1, Quoted1, Bare1)

(* content = content.replace("'0'", '0'); content = content.replace("'1'", '1') *)
ConvertBooleans(content) ==
    SubLiteral(SubLiteral(content, 1, Quoted0, Bare0), 1, Quoted1, Bare1)

(* content = content.replace("''", "NULL") *)
ConvertEmptyStrings(content) == SubLiteral(content, 1, EmptyQuotes, NullKw)

(* The rules that run before the boolean rule, composed. *)
RulesBeforeBooleans(content) ==
    BracketInsert(RemoveCreateUniqueIndex(RemoveCreateIndex(RemoveCreateTable(
        RewriteCreateIfNotExists(StripCommit(StripBeginTransaction(StripPragma(content))))))))

(* ---- The line-oriented pass ---- *)

(* content.split('\n') from position i on: always at least one line, the
   last one being what follows the last line break. *)
RECURSIVE SplitFrom(_, _)
SplitFrom(s, i) ==
    LET p == NextLiteral(s, i, <<"\n">>)
    IN  IF p = 0 THEN <<SubSeq(s, i, Len(s))>>
        ELSE <<SubSeq(s, i, p - 1)>> \o SplitFrom(s, p + 1)

Split(s) == SplitFrom(s, 1)

(* line.strip(): the text between the first and the last character that is
   no whitespace. *)
Strip(line) ==
    LET K == {k \in 1..Len(line) : line[k] \notin Whitespace}
    IN  IF K = {} THEN << >> ELSE SubSeq(line, Least(K), Greatest(K))

(* line.startswith(prefix), line.endswith(';') *)
StartsWith(line, prefix) == MatchesAt(line, 1, prefix)

EndsWithTerminator(line) == line # << >> /\ line[Len(line)] = ";"

(* A loop that keeps comment lines. *)
KeepLineCommentsToo(line) == line # << >>

(* if line and not line.startswith('--') *)
KeepLine(line) == line # << >> /\ ~StartsWith(line, CommentMarker)

(* The loop over the lines from line i on: each kept line is appended
   stripped, and followed by 'GO' when it ends with ';'. *)
RECURSIVE AddGoFrom(_, _)
AddGoFrom(lines, i) ==
    IF i > Len(lines) THEN << >>
    ELSE LET line == Strip(lines[i])
         IN  (IF KeepLine(line)
              THEN <<line>> \o (IF EndsWithTerminator(line) THEN <<GoLine>> ELSE << >>)
              ELSE << >>) \o AddGoFrom(lines, i + 1)

AddGo(lines) == AddGoFrom(lines, 1)

(* '\n'.join(output_lines) *)
RECURSIVE Join(_)
Join(lines) ==
    IF lines = << >> THEN << >>
    ELSE IF Len(lines) = 1 THEN Head(lines)
    ELSE Head(lines) \o <<"\n">> \o Join(Tail(lines))

(* f.read() of a file opened in text mode: universal newlines turn "\r\n"
   and a lone "\r" into "\n". *)
RECURSIVE ReadTextFrom(_, _)
ReadTextFrom(data, i) ==
    LET p == NextLiteral(data, i, <<"\r">>)
    IN  IF p = 0 THEN SubSeq(data, i, Len(data))
        ELSE SubSeq(data, i, p - 1) \o <<"\n">>
             \o ReadTextFrom(data, IF p < Len(data) /\ data[p + 1] = "\n" THEN p + 2 ELSE p + 1)

ReadText(data) == ReadTextFrom(data, 1)

(* ---- The documents the converter is run on ---- *)

(* Pieces of SQLite dumps; an input document is a concatenation of at most
   MaxFrags of them, or one of the Samples. *)

FragQuote ==
    <<"'">>

FragQuoted0 ==
    <<"'","0","'">>

FragQuoted1 ==
    <<"'","1","'">>

FragTerminator ==
    <<";">>

FragNewline ==
    <<"\n">>

FragCreateTable ==
    <<"C","R","E","A","T","E"," ","T","A","B","L","E"," ","T">>

FragInsert ==
    <<"I","N","S","E","R","T"," ","I","N","T","O"," ","T"," ">>

FragCommit ==
    <<"C","O","M","M","I","T",";">>

FragPragma ==
    <<"P","R","A","G","M","A"," ","f">>

FragComment ==
    <<"-","-"," ","c">>

FragSpace ==
    <<" ">>

FragCreateIndex ==
    <<"C","R","E","A","T","E"," ","I","N","D","E","X"," ","i">>

Fragments ==
    {FragQuote, FragQuoted0, FragQuoted1, FragTerminator, FragNewline, FragCreateTable,
     FragInsert, FragCommit, FragPragma, FragComment, FragSpace, FragCreateIndex}

SampleEndToEnd ==
    <<"P","R","A","G","M","A"," ","f","o","o",";","\n","B","E","G","I","N"," ","T","R","A",
      "N","S","A","C","T","I","O","N",";","\n","C","R","E","A","T","E"," ","T","A","B","L",
      "E"," ","T"," ","(","a"," ","i","n","t",")",";","\n","I","N","S","E","R","T"," ","I",
      "N","T","O"," ","T"," ","V","A","L","U","E","S","(","'","0","'",")",";","\n","C","O",
      "M","M","I","T",";">>

SampleIfNotExists ==
    <<"C","R","E","A","T","E"," ","T","A","B","L","E"," ","I","F"," ","N","O","T"," ","E",
      "X","I","S","T","S"," ","T"," ","(","a"," ","i","n","t",")",";","\n","I","N","S","E",
      "R","T"," ","I","N","T","O"," ","T"," ","V","A","L","U","E","S","(","'","1","'",")",
      ";">>

SampleTerminatorInLiteral ==
    <<"C","R","E","A","T","E"," ","T","A","B","L","E"," ","A"," ","(","x",")",";","\n","I",
      "N","S","E","R","T"," ","I","N","T","O"," ","B"," ","V","A","L","U","E","S","(","'",
      ";","'",")",";","\n","C","R","E","A","T","E"," ","T","A","B","L","E"," ","C"," ","(",
      "y",")",";","\n","I","N","S","E","R","T"," ","I","N","T","O"," ","D"," ","V","A","L",
      "U","E","S","(","2",")",";">>

SampleMultiLineCreate ==
    <<"C","R","E","A","T","E"," ","T","A","B","L","E"," ","T"," ","(","\n"," "," ","a"," ",
      "i","n","t","\n",")",";","\n","C","R","E","A","T","E"," ","U","N","I","Q","U","E"," ",
      "I","N","D","E","X"," ","u"," ","O","N"," ","T","(","a",")",";","\n","C","R","E","A",
      "T","E"," ","I","N","D","E","X"," ","i","\n","O","N"," ","T","(","a",")",";">>

SampleNestedQuotes ==
    <<"I","N","S","E","R","T"," ","I","N","T","O"," ","T"," ","V","A","L","U","E","S","(",
      "'","i","t","'","'","0","'","'","s","'",","," ","'","'","1","'","'",","," ","'","'",
      ")",";">>

SampleCarriageReturns ==
    <<"-","-"," ","d","u","m","p","\r","\n","\r","\n","\t","I","N","S","E","R","T"," ","I",
      "N","T","O"," ","T"," ","V","A","L","U","E","S","(","1",")",";"," "," ","\r","C","O",
      "M","M","I","T",";","\r","\n">>

SampleOnlyRemoved ==
    <<"P","R","A","G","M","A"," ","f","o","o",";","\n","B","E","G","I","N"," ","T","R","A",
      "N","S","A","C","T","I","O","N",";","\n","-","-"," ","n","o","t","h","i","n","g","\n",
      "\n","C","O","M","M","I","T",";","\n">>

SampleSplitKeyword ==
    <<"C","O","M","C","O","M","M","I","T",";","M","I","T",";","\n","C","R","E","A","T","E",
      " ","C","R","E","A","T","E"," ","I","N","D","E","X"," ","i",";","T","A","B","L","E",
      " ","T"," ","(","a",")",";">>

Samples ==
    {SampleEndToEnd,
     SampleIfNotExists,
     SampleTerminatorInLiteral,
     SampleMultiLineCreate,
     SampleNestedQuotes,
     SampleCarriageReturns,
     SampleOnlyRemoved,
     SampleSplitKeyword}

MaxFrags == 3

RECURSIVE Concat(_)
Concat(pieces) ==
    IF pieces = << >> THEN << >> ELSE Head(pieces) \o Concat(Tail(pieces))

Documents ==
    Samples \cup {Concat(pieces) : pieces \in UNION {[1..n -> Fragments] : n \in 0..MaxFrags}}

(* ---- The arguments import_to_sqlserver is called with ---- *)

TmpDir ==
    <<"/","t","m","p","/">>

ContainerPrefix ==
    <<"e","i","d","o","s","-","s","q","l","s","e","r","v","e","r",":">>

PathSeparator ==
    <<"/">>

DirOut ==
    <<"o","u","t">>

DirData ==
    <<"d","a","t","a">>

BaseImport ==
    <<"s","q","l","s","e","r","v","e","r","_","i","m","p","o","r","t",".","s","q","l">>

BaseShort ==
    <<"a",".","s","q","l">>

MaxDepth == 2

MaxReturnCode == 2

RECURSIVE JoinDirs(_)
JoinDirs(dirs) ==
    IF dirs = << >> THEN << >> ELSE Head(dirs) \o PathSeparator \o JoinDirs(Tail(dirs))

(* Relative and absolute paths with at most MaxDepth directory components. *)
SqlFiles ==
    {(IF abs THEN PathSeparator ELSE << >>) \o JoinDirs(dirs) \o base :
        abs \in BOOLEAN,
        dirs \in UNION {[1..n -> {DirOut, DirData}] : n \in 0..MaxDepth},
        base \in {BaseImport, BaseShort}}

(* Exit statuses of the client (negative: killed by a signal) and what it
   wrote to standard error. *)
ReturnCodes == (0 - MaxReturnCode)..MaxReturnCode

StderrTexts == {"", "Login failed for user 'sa'.", "Sqlcmd: Error: cannot open input file"}

(* ---- State ---- *)

VARIABLES
    fs,            \* the file system: file name -> [exists, data]
    pc,            \* position of the converter driver
    run,           \* 1: the driver's conversion; 2: a conversion of its output
    input_file,    \* convert_sqlite_to_sqlserver's arguments
    output_file,
    content,       \* its local variable content
    output_lines,  \* its local variable output_lines
    stdout,        \* what has been printed, in order
    ipc,           \* position of import_to_sqlserver
    sql_file,      \* its argument
    cmd,           \* its local variable cmd
    invoked,       \* the subprocess.run calls made, in order
    result,        \* the client's CompletedProcess
    ret            \* the value import_to_sqlserver returned

convVars == <<fs, pc, run, input_file, output_file, content, output_lines>>

importVars == <<ipc, sql_file, cmd, invoked, result, ret>>

vars == <<fs, pc, run, input_file, output_file, content, output_lines, stdout,
          ipc, sql_file, cmd, invoked, result, ret>>

(* The driver's file names, and the file a second conversion writes. *)
SourceDump == "sqlitedata.sql"

ConvertedDump == "sqlserver_import.sql"

RoundTripDump == "roundtrip.sql"

FileNames == {SourceDump, ConvertedDump, RoundTripDump}

NoFile == [exists |-> FALSE, data |-> << >>]

NoCmd == [container |-> "", client |-> "", server |-> "", user |-> "", password |-> "",
          database |-> "", trust_cert |-> FALSE, script |-> << >>]

NoResult == [returncode |-> 0, stderr |-> ""]

Say(msg, arg) == Append(stdout, [msg |-> msg, arg |-> arg])

(* ---- The converter ---- *)

ConvIdle ==
    /\ pc = "main" /\ run = 1
    /\ input_file = "" /\ output_file = ""
    /\ content = << >> /\ output_lines = << >>
    /\ stdout = << >>

ImportIdle ==
    /\ ipc = "idle" /\ sql_file = << >> /\ cmd = NoCmd
    /\ invoked = << >> /\ result = NoResult /\ ret = "none"

(* The dump is any of the documents, or is missing. *)
Init ==
    /\ \E dump \in {[exists |-> TRUE, data |-> doc] : doc \in Documents} \cup {NoFile} :
          fs = [f \in FileNames |-> IF f = SourceDump THEN dump ELSE NoFile]
    /\ ConvIdle
    /\ ImportIdle

(* __main__: print the banner and call the converter on the fixed paths. *)
MainStart ==
    /\ pc = "main"
    /\ stdout' = Say("starting", "")
    /\ input_file' = SourceDump
    /\ output_file' = ConvertedDump
    /\ pc' = "open"
    /\ UNCHANGED <<fs, run, content, output_lines>>
    /\ UNCHANGED importVars

(* with open(input_file, 'r') as f: content = f.read() *)
OpenRead ==
    /\ pc = "open"
    /\ fs[input_file].exists
    /\ content' = ReadText(fs[input_file].data)
    /\ pc' = "pragma"
    /\ UNCHANGED <<fs, run, input_file, output_file, output_lines, stdout>>
    /\ UNCHANGED importVars

(* open() raises FileNotFoundError: uncaught. *)
OpenFails ==
    /\ pc = "open"
    /\ ~fs[input_file].exists
    /\ pc' = "raised"
    /\ UNCHANGED <<fs, run, input_file, output_file, content, output_lines, stdout>>
    /\ UNCHANGED importVars

(* One substitution statement: content = rule(content). *)
Rule(at, rule, next) ==
    /\ pc = at
    /\ content' = rule
    /\ pc' = next
    /\ UNCHANGED <<fs, run, input_file, output_file, output_lines, stdout>>
    /\ UNCHANGED importVars

DoStripPragma == Rule("pragma", StripPragma(content), "begin")

DoStripBeginTransaction == Rule("begin", StripBeginTransaction(content), "commit")

DoStripCommit == Rule("commit", StripCommit(content), "ifnotexists")

DoRewriteCreateIfNotExists ==
    Rule("ifnotexists", RewriteCreateIfNotExists(content), "createtable")

DoRemoveCreateTable == Rule("createtable", RemoveCreateTable(content), "createindex")

DoRemoveCreateIndex == Rule("createindex", RemoveCreateIndex(content), "uniqueindex")

DoRemoveCreateUniqueIndex ==
    Rule("uniqueindex", RemoveCreateUniqueIndex(content), "insert")

DoBracketInsert == Rule("insert", BracketInsert(content), "booleans")

DoConvertBooleans == Rule("booleans", ConvertBooleans(content), "empty")

DoConvertEmptyStrings == Rule("empty", ConvertEmptyStrings(content), "lines")

(* lines = content.split('\n') and the loop that fills output_lines. *)
AddGoStatements ==
    /\ pc = "lines"
    /\ output_lines' = AddGo(Split(content))
    /\ pc' = "write"
    /\ UNCHANGED <<fs, run, input_file, output_file, content, stdout>>
    /\ UNCHANGED importVars

(* A write that is skipped when there is no line to write. *)
WrittenOnlyIfLines(lines) ==
    IF lines = << >> THEN [exists |-> FALSE, data |-> << >>]
    ELSE [exists |-> TRUE, data |-> Join(lines)]

(* What open(output_file, 'w') and f.write leave in the file. *)
Written(lines) == [exists |-> TRUE, data |-> Join(lines)]

(* with open(output_file, 'w') as f: f.write('\n'.join(output_lines)) *)
WriteOutput ==
    /\ pc = "write"
    /\ fs' = [fs EXCEPT ![output_file] = Written(output_lines)]
    /\ pc' = "print"
    /\ UNCHANGED <<run, input_file, output_file, content, output_lines, stdout>>
    /\ UNCHANGED importVars

(* open(output_file, 'w') raises (the path is not writable): uncaught. *)
WriteFails ==
    /\ pc = "write"
    /\ pc' = "raised"
    /\ UNCHANGED <<fs, run, input_file, output_file, content, output_lines, stdout>>
    /\ UNCHANGED importVars

(* print(f"Converted SQL dump saved to {output_file}") and the return. *)
PrintConverted ==
    /\ pc = "print"
    /\ stdout' = Say("converted", output_file)
    /\ pc' = "returned"
    /\ UNCHANGED <<fs, run, input_file, output_file, content, output_lines>>
    /\ UNCHANGED importVars

(* __main__ after the conversion: the manual-import instructions. *)
MainInstructions ==
    /\ pc = "returned" /\ run = 1
    /\ stdout' = Say("manual_import", ConvertedDump)
    /\ pc' = "exit"
    /\ UNCHANGED <<fs, run, input_file, output_file, content, output_lines>>
    /\ UNCHANGED importVars

(* The converter called on its own output. *)
ConvertAgain ==
    /\ pc = "exit" /\ run = 1
    /\ run' = 2
    /\ input_file' = ConvertedDump
    /\ output_file' = RoundTripDump
    /\ content' = << >>
    /\ output_lines' = << >>
    /\ pc' = "open"
    /\ UNCHANGED <<fs, stdout>>
    /\ UNCHANGED importVars

Next ==
    \/ MainStart
    \/ OpenRead
    \/ OpenFails
    \/ DoStripPragma
    \/ DoStripBeginTransaction
    \/ DoStripCommit
    \/ DoRewriteCreateIfNotExists
    \/ DoRemoveCreateTable
    \/ DoRemoveCreateIndex
    \/ DoRemoveCreateUniqueIndex
    \/ DoBracketInsert
    \/ DoConvertBooleans
    \/ DoConvertEmptyStrings
    \/ AddGoStatements
    \/ WriteOutput
    \/ WriteFails
    \/ PrintConverted
    \/ MainInstructions
    \/ ConvertAgain

Spec == Init /\ [][Next]_vars

(* ---- The import runner ---- *)

(* f'/tmp/{sql_file}': the script path handed to the client with -i. *)
ScriptPath(file) == TmpDir \o file

(* f'eidos-sqlserver:/tmp/{sql_file}': the destination of docker cp. *)
CopyDestination(file) == ContainerPrefix \o TmpDir \o file

(* cmd = ['docker', 'exec', '-i', 'eidos-sqlserver', sqlcmd, '-S', ..., '-i', path] *)
ClientCmd(file) ==
    [container |-> "eidos-sqlserver", client |-> "/opt/mssql-tools18/bin/sqlcmd",
     server |-> "localhost", user |-> "sa", password |-> "YourStrong!Passw0rd",
     database |-> "EidosDb", trust_cert |-> TRUE, script |-> ScriptPath(file)]

(* A copy whose exit status is not checked. *)
AfterCopyUnchecked(status) == IF status = "not_started" THEN "raised" ELSE "client"

(* subprocess.run(..., check=True): a non-zero exit status raises
   CalledProcessError, a command that cannot be started raises OSError. *)
AfterCopy(status) == IF status = "ok" THEN "client" ELSE "raised"

(* Success judged by the absence of error output. *)
ImportSucceededByStderr(res) == res.stderr = ""

(* if result.returncode == 0 *)
ImportSucceeded(res) == res.returncode = 0

Invoke(kind, args, status) ==
    Append(invoked, [kind |-> kind, args |-> args, status |-> status])

(* import_to_sqlserver is called with any of the paths; the converter is
   not running. *)
InitImport ==
    /\ fs = [f \in FileNames |-> NoFile]
    /\ ConvIdle
    /\ ipc = "call"
    /\ sql_file \in SqlFiles
    /\ cmd = NoCmd /\ invoked = << >> /\ result = NoResult /\ ret = "none"

(* The announcement and the construction of cmd. *)
ImportStart ==
    /\ ipc = "call"
    /\ stdout' = Say("importing", "")
    /\ cmd' = ClientCmd(sql_file)
    /\ ipc' = "copy"
    /\ UNCHANGED <<sql_file, invoked, result, ret>>
    /\ UNCHANGED convVars

(* subprocess.run(['docker', 'cp', sql_file, dest], check=True) *)
Copy ==
    /\ ipc = "copy"
    /\ \E status \in {"ok", "failed", "not_started"} :
          /\ invoked' = Invoke("copy", <<sql_file, CopyDestination(sql_file)>>, status)
          /\ ipc' = AfterCopy(status)
    /\ UNCHANGED <<sql_file, cmd, result, ret, stdout>>
    /\ UNCHANGED convVars

(* result = subprocess.run(cmd, capture_output=True, text=True) *)
RunClient ==
    /\ ipc = "client"
    /\ \E rc \in ReturnCodes, err \in StderrTexts :
          result' = [returncode |-> rc, stderr |-> err]
    /\ invoked' = Invoke("client", <<cmd.script>>, "exited")
    /\ ipc' = "check"
    /\ UNCHANGED <<sql_file, cmd, ret, stdout>>
    /\ UNCHANGED convVars

(* The client cannot be started: subprocess.run raises OSError. *)
ClientCannotStart ==
    /\ ipc = "client"
    /\ invoked' = Invoke("client", <<cmd.script>>, "not_started")
    /\ ipc' = "raised"
    /\ UNCHANGED <<sql_file, cmd, result, ret, stdout>>
    /\ UNCHANGED convVars

(* print("Data imported successfully!") *)
ReportSuccess ==
    /\ ipc = "check"
    /\ ImportSucceeded(result)
    /\ stdout' = Say("import_ok", "")
    /\ ipc' = "return"
    /\ UNCHANGED <<sql_file, cmd, invoked, result, ret>>
    /\ UNCHANGED convVars

(* print(f"Import failed: {result.stderr}"); return False *)
ReportFailure ==
    /\ ipc = "check"
    /\ ~ImportSucceeded(result)
    /\ stdout' = Say("import_failed", result.stderr)
    /\ ret' = "False"
    /\ ipc' = "returned"
    /\ UNCHANGED <<sql_file, cmd, invoked, result>>
    /\ UNCHANGED convVars

(* return True *)
ReturnTrue ==
    /\ ipc = "return"
    /\ ret' = "True"
    /\ ipc' = "returned"
    /\ UNCHANGED <<sql_file, cmd, invoked, result, stdout>>
    /\ UNCHANGED convVars

NextImport ==
    \/ ImportStart
    \/ Copy
    \/ RunClient
    \/ ClientCannotStart
    \/ ReportSuccess
    \/ ReportFailure
    \/ ReturnTrue

SpecImport == InitImport /\ [][NextImport]_vars

(* ======================= Claims: the converter ======================= *)

(* Texts the claims name. *)

ExpectedEndToEnd ==
    <<"I","N","S","E","R","T"," ","I","N","T","O"," ","[","T","]"," ","V","A","L","U","E",
      "S","(","0",")",";","\n","G","O">>

BatchSeparator ==
    <<"G","O">>

AfterCreateTableRemoved ==
    <<"\n","I","N","S","E","R","T"," ","I","N","T","O"," ","B"," ","V","A","L","U","E","S",
      "(","'",";","'",")",";","\n","\n","I","N","S","E","R","T"," ","I","N","T","O"," ","D",
      " ","V","A","L","U","E","S","(","2",")",";">>

(* lit occurs somewhere in s. *)
Contains(s, lit) == \E i \in 1..Len(s) : MatchesAt(s, i, lit)

(* lit, then any characters ('.': no line break unless dotall), then ';'
   occurs somewhere in s. *)
LazyOccurs(s, lit, dotall) ==
    \E i \in 1..Len(s) :
        /\ MatchesAt(s, i, lit)
        /\ \E j \in (i + Len(lit))..Len(s) :
              /\ s[j] = ";"
              /\ dotall \/ \A k \in (i + Len(lit))..(j - 1) : s[k] # "\n"

(* 'INSERT INTO ' followed by an identifier that is not bracket-quoted. *)
UnbracketedInsert(s) ==
    \E i \in 1..Len(s) :
        /\ MatchesAt(s, i, InsertIntoKw)
        /\ i + Len(InsertIntoKw) <= Len(s)
        /\ s[i + Len(InsertIntoKw)] \in WordChars

(* The lines of a written file: an empty file has none. *)
FileLines(text) == IF text = << >> THEN << >> ELSE Split(text)

(* The converter has written its output file and not yet been called again. *)
OutputWritten == pc \in {"print", "returned", "exit"}

(* C1: the lines the converter writes: none is blank, none begins with the
   comment marker '--', and every line that ends with ';' is immediately
   followed by a line that is exactly 'GO'; they are the lines of the loop. *)
C1_OutputLines ==
    OutputWritten =>
        LET L == FileLines(fs[output_file].data)
        IN  /\ fs[output_file].exists
            /\ L = output_lines
            /\ \A i \in 1..Len(L) :
                  /\ Strip(L[i]) # << >>
                  /\ ~StartsWith(L[i], CommentMarker)
                  /\ EndsWithTerminator(L[i]) => (i < Len(L) /\ L[i + 1] = BatchSeparator)

(* C1 witness: a dump with a comment line, blank lines and a statement has
   been converted, and a written line ends with ';'. *)
C1_Witness ==
    /\ pc = "returned" /\ run = 1
    /\ fs[SourceDump].data = SampleCarriageReturns
    /\ \E i \in 1..Len(output_lines) : EndsWithTerminator(output_lines[i])

(* C2: the five-line end-to-end input is converted to exactly the two lines
   'INSERT INTO [T] VALUES(0);' and 'GO'. *)
C2_EndToEnd ==
    (/\ OutputWritten /\ run = 1
     /\ fs[SourceDump].data = SampleEndToEnd)
        => fs[ConvertedDump] = [exists |-> TRUE, data |-> ExpectedEndToEnd]

(* C2 witness: the end-to-end input has been converted. *)
C2_Witness ==
    /\ pc = "returned" /\ run = 1
    /\ fs[SourceDump].data = SampleEndToEnd
    /\ fs[ConvertedDump].exists

(* C5 as stated: after a conversion that returns, the output file exists and
   is not empty. *)
C5_Original ==
    pc = "returned" => (fs[output_file].exists /\ fs[output_file].data # << >>)

(* C5 amended: after a conversion that returns, the output file exists, and
   it is non-empty exactly when some line of the converted text is, once
   stripped, neither blank nor a comment. *)
C5_ExistsAndEmptyOnlyIfNoLine ==
    pc = "returned" =>
        /\ fs[output_file].exists
        /\ fs[output_file].data # << >> <=>
              \E i \in 1..Len(Split(content)) :
                 /\ Strip(Split(content)[i]) # << >>
                 /\ ~StartsWith(Strip(Split(content)[i]), CommentMarker)

(* C5 witness: a non-empty dump made only of a pragma, transaction markers,
   a comment and blank lines has been converted, into an empty file. *)
C5_Witness ==
    /\ pc = "returned" /\ run = 1
    /\ fs[SourceDump].data = SampleOnlyRemoved
    /\ fs[ConvertedDump] = [exists |-> TRUE, data |-> << >>]

(* The text the create-table deletion is applied to: the document as read,
   after the four statements that precede it. *)
BeforeCreateTable(data) ==
    RewriteCreateIfNotExists(StripCommit(StripBeginTransaction(StripPragma(ReadText(data)))))

(* The positions of s that lie between the start of an occurrence of
   'CREATE TABLE' and the first ';' after that occurrence, both included. *)
InCreateTableStatement(s) ==
    {q \in 1..Len(s) :
        \E p \in 1..q :
            /\ MatchesAt(s, p, CreateTableKw)
            /\ \E j \in (p + Len(CreateTableKw))..Len(s) : s[j] = ";"
            /\ \A k \in (p + Len(CreateTableKw))..(q - 1) : s[k] # ";"}

(* r is s without the characters at the positions in D, the others in order. *)
IsWithout(r, s, D) ==
    /\ Len(r) = Len(s) - Cardinality(D)
    /\ \A q \in (1..Len(s)) \ D : r[q - Cardinality({d \in D : d < q})] = s[q]

(* C9: the create-table deletion removes exactly the characters from each
   'CREATE TABLE' up to and including the first ';' after it, across line
   breaks, and nothing beyond that terminator; a 'CREATE TABLE' with no ';'
   after it stays. *)
C9_CreateTableUpToFirstTerminator ==
    pc = "createindex" =>
        LET s == BeforeCreateTable(fs[input_file].data)
        IN  IsWithout(content, s, InCreateTableStatement(s))

(* C9 witness: the deletion has run on a dump in which a statement with a ';'
   inside a string literal stands between two create-table statements, and
   that statement and the one after the second create-table are still there. *)
C9_Witness ==
    /\ pc = "createindex" /\ run = 1
    /\ fs[SourceDump].data = SampleTerminatorInLiteral
    /\ content = AfterCreateTableRemoved

NoListedPattern(out) ==
    /\ ~LazyOccurs(out, PragmaKw, FALSE)
    /\ ~Contains(out, BeginTransaction)
    /\ ~Contains(out, CommitKw)
    /\ ~LazyOccurs(out, CreateTableKw, TRUE)
    /\ ~LazyOccurs(out, CreateIndexKw, FALSE)
    /\ ~UnbracketedInsert(out)

(* No pattern of any of the ten substitution rules. *)
NoRulePattern(out) ==
    /\ NoListedPattern(out)
    /\ ~Contains(out, CreateTableIfNotExists)
    /\ ~LazyOccurs(out, CreateUniqueIndexKw, FALSE)
    /\ ~Contains(out, Quoted0)
    /\ ~Contains(out, Quoted1)
    /\ ~Contains(out, EmptyQuotes)

(* The number of lines before line i that end with ';'. *)
TerminatedBefore(L, i) == Cardinality({k \in 1..(i - 1) : EndsWithTerminator(L[k])})

(* The second conversion has written its output. *)
RoundTripWritten == run = 2 /\ pc \in {"print", "returned"}

(* C4 as stated: a second conversion of an output without the listed
   patterns writes exactly that output. *)
C4_Original ==
    (RoundTripWritten /\ NoListedPattern(fs[ConvertedDump].data))
        => fs[RoundTripDump].data = fs[ConvertedDump].data

(* C4 amended: a second conversion of an output without any pattern of the
   substitution rules deletes and alters no line; its output is the first
   output with one more 'GO' line after every line that ends with ';'. *)
C4_SecondPassOnlyAddsGo ==
    (RoundTripWritten /\ NoRulePattern(fs[ConvertedDump].data)) =>
        LET L1 == FileLines(fs[ConvertedDump].data)
            L2 == FileLines(fs[RoundTripDump].data)
        IN  /\ Len(L2) = Len(L1) + TerminatedBefore(L1, Len(L1) + 1)
            /\ \A i \in 1..Len(L1) :
                  /\ L2[i + TerminatedBefore(L1, i)] = L1[i]
                  /\ EndsWithTerminator(L1[i]) =>
                        L2[i + TerminatedBefore(L1, i) + 1] = BatchSeparator

(* C4 witness: an output with a bracketed insert statement ending with ';',
   and without any rule pattern, has been converted again. *)
C4_Witness ==
    /\ RoundTripWritten /\ pc = "returned"
    /\ NoRulePattern(fs[ConvertedDump].data)
    /\ Contains(fs[ConvertedDump].data, InsertIntoKw \o <<"[">>)
    /\ \E i \in 1..Len(FileLines(fs[ConvertedDump].data)) :
          EndsWithTerminator(FileLines(fs[ConvertedDump].data)[i])

(* The conversion with the 'CREATE TABLE IF NOT EXISTS' rewrite left out. *)
ConvertWithoutRewrite(data) ==
    Join(AddGo(Split(ConvertEmptyStrings(ConvertBooleans(BracketInsert(
        RemoveCreateUniqueIndex(RemoveCreateIndex(RemoveCreateTable(
            StripCommit(StripBeginTransaction(StripPragma(ReadText(data)))))))))))))

(* C8: the written output is the output of the same rules without the
   'CREATE TABLE IF NOT EXISTS' rewrite: nothing the rewrite inserts
   survives the create-table deletion. *)
C8_RewriteIsDeadCode ==
    OutputWritten => fs[output_file].data = ConvertWithoutRewrite(fs[input_file].data)

(* ===================== Claims: the import runner ===================== *)

(* The calls of one kind among the subprocess calls made so far. *)
Calls(kind) == {i \in 1..Len(invoked) : invoked[i].kind = kind}

(* C6: the copy runs before the client, and the client is invoked only after
   a copy that succeeded; when the copy fails the function has raised, the
   client has not been invoked and nothing has been returned. *)
C6_CopyBeforeClient ==
    /\ \A i \in Calls("client") :
          \E j \in Calls("copy") : j < i /\ invoked[j].status = "ok"
    /\ \A j \in Calls("copy") :
          invoked[j].status # "ok" =>
              (ipc = "raised" /\ Calls("client") = {} /\ ret = "none")

(* C6 witness: the copy has failed with a non-zero exit status. *)
C6_Witness ==
    /\ ipc = "raised"
    /\ \E j \in Calls("copy") : invoked[j].status = "failed"

(* C7: once import_to_sqlserver has returned, it returned True exactly when
   the client exited with status zero, and False only after printing the
   captured standard-error text as the last message; the copy and the client
   are each invoked at most once. *)
C7_ReturnsExitStatus ==
    /\ Cardinality(Calls("copy")) <= 1
    /\ Cardinality(Calls("client")) <= 1
    /\ ipc = "returned" =>
          /\ ret \in {"True", "False"}
          /\ ret = "True" <=> result.returncode = 0
          /\ ret = "False" =>
                stdout[Len(stdout)] = [msg |-> "import_failed", arg |-> result.stderr]

(* C7 witness: the client exited with a non-zero status and error text, and
   the function has returned. *)
C7_Witness ==
    /\ ipc = "returned"
    /\ result.returncode # 0 /\ result.stderr # ""
    /\ Calls("copy") # {} /\ Calls("client") # {}

(* The last component of a path. *)
Basename(path) ==
    LET S == {k \in 1..Len(path) : path[k] = "/"}
    IN  IF S = {} THEN path ELSE SubSeq(path, Greatest(S) + 1, Len(path))

(* C10: the in-container destination of the copy and the script path given
   to the client are the same path, '/tmp/' followed by the base name of
   sql_file. *)
C10_TmpPathOfBasename ==
    /\ ipc # "call" => cmd.script = TmpDir \o Basename(sql_file)
    /\ \A j \in Calls("copy") :
          invoked[j].args[2] = ContainerPrefix \o TmpDir \o Basename(sql_file)
=============================================================================
